---------------------------- MODULE Spec2Model ----------------------------
(***************************************************************************)
(* Model of the nova task and phase orchestration engine:                  *)
(*   src/nova/state.py        the two state machines and the state store   *)
(*   src/nova/transitions.py  handle_transition (approval in a session)    *)
(*   src/nova/runner.py       resolver, attempt loop, escalation, run-all  *)
(*   src/nova/cli.py          the commands that drive them                 *)
(*                                                                         *)
(* Specifications:                                                         *)
(*   Spec          the whole program: commands, run_task, termination      *)
(*   SpecTask      transition_task applied to arbitrary tasks and targets  *)
(*   SpecPhase     transition_phase applied to arbitrary project states    *)
(*   SpecResolver  get_next_runnable_task applied to arbitrary task lists  *)
(***************************************************************************)
EXTENDS Integers, Sequences, FiniteSets, TLC

VARIABLES
    mem,      \* the ProjectState object of the running command
    disk,     \* state.json: the last state written by save_state
    proc,     \* the running command: its position and its local variables
    runlogs,  \* logs/runs: the run-log files, by file name
    calls,    \* the running command's record of its run_task call
    tt,       \* SpecTask: the task under test and the last call made on it
    ph,       \* SpecPhase: the project state under test and the last call
    rs        \* SpecResolver: the task list under test and the result

vars == <<mem, disk, proc, runlogs, calls, tt, ph, rs>>

-----------------------------------------------------------------------------
(* Bounds of the model and constants of the program *)

MaxTasks == 2
MaxEscalations == 2
MaxAttemptInput == 2
MaxStampInput == 1
MaxSteps == 5
MaxOrder == 2
MaxResolverTasks == 2

MAX_ATTEMPTS == 3

\* None, for a text field and for an escalation id.
NULL == "null"
NoId == <<>>

-----------------------------------------------------------------------------
(* models.py: the enumerations *)

TaskState ==
    {"new", "ready", "in_progress", "in_review", "in_qa", "done", "blocked",
     "archived"}

ProjectPhase ==
    {"brainstorm", "spec_draft", "spec_approved", "plan_draft",
     "plan_approved", "tasks_generated", "executing", "complete"}

-----------------------------------------------------------------------------
(* state.py: the transition tables and the two transition functions *)

TASK_TRANSITIONS ==
    [s \in TaskState |->
        CASE s = "new"         -> {"ready"}
          [] s = "ready"       -> {"in_progress"}
          [] s = "in_progress" -> {"in_review", "blocked"}
          [] s = "in_review"   -> {"in_qa", "in_progress", "blocked"}
          [] s = "in_qa"       -> {"done", "in_progress", "blocked"}
          [] s = "done"        -> {"archived"}
          [] s = "blocked"     -> {"ready"}
          [] s = "archived"    -> {}]

PHASE_TRANSITIONS ==
    [p \in ProjectPhase |->
        CASE p = "brainstorm"      -> {"spec_draft"}
          [] p = "spec_draft"      -> {"spec_approved"}
          [] p = "spec_approved"   -> {"plan_draft"}
          [] p = "plan_draft"      -> {"plan_approved"}
          [] p = "plan_approved"   -> {"tasks_generated"}
          [] p = "tasks_generated" -> {"executing"}
          [] p = "executing"       -> {"complete"}
          [] p = "complete"        -> {}]

\* can_transition_task with the table read the wrong way round.
can_transition_task_reversed(current, target) ==
    current \in TASK_TRANSITIONS[target]

can_transition_task(current, target) == target \in TASK_TRANSITIONS[current]

\* datetime.now(timezone.utc), read when `previous` is the latest stamp: a
\* later time.
utcnow(previous) == previous + 1

\* The clock of Spec: an object is created at time 0, and every later reading
\* of datetime.now is one later time.
now == 1

\* transition_task without the clearing of escalation_id of line 71.
transition_task_keeps_escalation(task, target, time) ==
    IF ~can_transition_task(task.state, target)
    THEN [raised |-> TRUE, task |-> task]
    ELSE LET coming_from == task.state
             t1 == [task EXCEPT !.state = target]
             t2 == IF target = "in_progress"
                      /\ coming_from \in {"in_review", "in_qa"}
                   THEN [t1 EXCEPT !.attempt = @ + 1]
                   ELSE IF target = "ready" /\ coming_from = "blocked"
                   THEN [t1 EXCEPT !.attempt = 0, !.blocked_reason = NULL]
                   ELSE t1
         IN [raised |-> FALSE,
             task |-> [t2 EXCEPT !.updated_at = time]]

\* transition_task counting every entry into in_progress as an attempt.
transition_task_counts_every_entry(task, target, time) ==
    IF ~can_transition_task(task.state, target)
    THEN [raised |-> TRUE, task |-> task]
    ELSE LET coming_from == task.state
             t1 == [task EXCEPT !.state = target]
             t2 == IF target = "in_progress"
                   THEN [t1 EXCEPT !.attempt = @ + 1]
                   ELSE IF target = "ready" /\ coming_from = "blocked"
                   THEN [t1 EXCEPT !.attempt = 0,
                                   !.blocked_reason = NULL,
                                   !.escalation_id = NoId]
                   ELSE t1
         IN [raised |-> FALSE,
             task |-> [t2 EXCEPT !.updated_at = time]]

\* transition_task without the clearing of blocked_reason of line 69.
transition_task_keeps_reason(task, target, time) ==
    IF ~can_transition_task(task.state, target)
    THEN [raised |-> TRUE, task |-> task]
    ELSE LET coming_from == task.state
             t1 == [task EXCEPT !.state = target]
             t2 == IF target = "in_progress"
                      /\ coming_from \in {"in_review", "in_qa"}
                   THEN [t1 EXCEPT !.attempt = @ + 1]
                   ELSE IF target = "blocked"
                   THEN t1
                   ELSE IF target = "ready" /\ coming_from = "blocked"
                   THEN [t1 EXCEPT !.attempt = 0,
                                   !.escalation_id = NoId]
                   ELSE t1
         IN [raised |-> FALSE,
             task |-> [t2 EXCEPT !.updated_at = time]]

\* transition_task resetting attempt on the move to blocked as well.
transition_task_resets_on_blocked(task, target, time) ==
    IF ~can_transition_task(task.state, target)
    THEN [raised |-> TRUE, task |-> task]
    ELSE LET coming_from == task.state
             t1 == [task EXCEPT !.state = target]
             t2 == IF target = "in_progress"
                      /\ coming_from \in {"in_review", "in_qa"}
                   THEN [t1 EXCEPT !.attempt = @ + 1]
                   ELSE IF target = "blocked"
                   THEN [t1 EXCEPT !.attempt = 0]
                   ELSE IF target = "ready" /\ coming_from = "blocked"
                   THEN [t1 EXCEPT !.attempt = 0,
                                   !.blocked_reason = NULL,
                                   !.escalation_id = NoId]
                   ELSE t1
         IN [raised |-> FALSE,
             task |-> [t2 EXCEPT !.updated_at = time]]

\* The result of a call that may raise ValueError: raised, and the object
\* as the call leaves it.
transition_task(task, target, time) ==
    IF ~can_transition_task(task.state, target)
    THEN [raised |-> TRUE, task |-> task]
    ELSE LET coming_from == task.state
             t1 == [task EXCEPT !.state = target]
             t2 == IF target = "in_progress"
                      /\ coming_from \in {"in_review", "in_qa"}
                   THEN [t1 EXCEPT !.attempt = @ + 1]
                   ELSE IF target = "blocked"
                   THEN t1
                   ELSE IF target = "ready" /\ coming_from = "blocked"
                   THEN [t1 EXCEPT !.attempt = 0,
                                   !.blocked_reason = NULL,
                                   !.escalation_id = NoId]
                   ELSE t1
         IN [raised |-> FALSE,
             task |-> [t2 EXCEPT !.updated_at = time]]

can_transition_phase(current, target) == target \in PHASE_TRANSITIONS[current]

\* transition_phase setting plan_approved one phase late, on the move to
\* tasks_generated.
transition_phase_plan_flag_late(state, target, time) ==
    IF ~can_transition_phase(state.phase, target)
    THEN [raised |-> TRUE, state |-> state]
    ELSE LET s1 == IF target = "spec_approved"
                   THEN [state EXCEPT !.spec_approved = TRUE]
                   ELSE IF target = "tasks_generated"
                   THEN [state EXCEPT !.plan_approved = TRUE,
                                      !.tasks_approved = TRUE]
                   ELSE state
         IN [raised |-> FALSE,
             state |-> [s1 EXCEPT !.phase = target, !.updated_at = time]]

\* transition_phase without the approval flags of lines 90-97.
transition_phase_no_flags(state, target, time) ==
    IF ~can_transition_phase(state.phase, target)
    THEN [raised |-> TRUE, state |-> state]
    ELSE [raised |-> FALSE,
          state |-> [state EXCEPT !.phase = target, !.updated_at = time]]

\* transition_phase stamping the state before it validates the move.
transition_phase_stamps_first(state, target, time) ==
    LET s0 == [state EXCEPT !.updated_at = time]
    IN IF ~can_transition_phase(state.phase, target)
       THEN [raised |-> TRUE, state |-> s0]
       ELSE LET s1 == IF target = "spec_approved"
                      THEN [s0 EXCEPT !.spec_approved = TRUE]
                      ELSE IF target = "plan_approved"
                      THEN [s0 EXCEPT !.plan_approved = TRUE]
                      ELSE IF target = "tasks_generated"
                      THEN [s0 EXCEPT !.tasks_approved = TRUE]
                      ELSE s0
            IN [raised |-> FALSE, state |-> [s1 EXCEPT !.phase = target]]

transition_phase(state, target, time) ==
    IF ~can_transition_phase(state.phase, target)
    THEN [raised |-> TRUE, state |-> state]
    ELSE LET s1 == IF target = "spec_approved"
                   THEN [state EXCEPT !.spec_approved = TRUE]
                   ELSE IF target = "plan_approved"
                   THEN [state EXCEPT !.plan_approved = TRUE]
                   ELSE IF target = "tasks_generated"
                   THEN [state EXCEPT !.tasks_approved = TRUE]
                   ELSE state
         IN [raised |-> FALSE,
             state |-> [s1 EXCEPT !.phase = target,
                                  !.updated_at = time]]


-----------------------------------------------------------------------------
(* models.py: a Task (the fields the engine reads or writes) *)

Task(id, state, order, dependencies) ==
    [id |-> id, state |-> state, order |-> order, attempt |-> 0,
     blocked_reason |-> NULL, escalation_id |-> NoId,
     dependencies |-> dependencies, updated_at |-> 0]

-----------------------------------------------------------------------------
(* runner.py: the dependency resolver *)

\* _deps_satisfied counting only done tasks, not archived ones.
_deps_satisfied_done_only(task, tasks) ==
    IF task.dependencies = {}
    THEN TRUE
    ELSE LET done_ids == {tasks[i].id : i \in {j \in 1..Len(tasks) :
                              tasks[j].state = "done"}}
         IN \A dep \in task.dependencies : dep \in done_ids

_deps_satisfied(task, tasks) ==
    IF task.dependencies = {}
    THEN TRUE
    ELSE LET done_ids == {tasks[i].id : i \in {j \in 1..Len(tasks) :
                              tasks[j].state \in {"done", "archived"}}}
         IN \A dep \in task.dependencies : dep \in done_ids

\* The positions of the tasks a list comprehension over `tasks` keeps.
RECURSIVE filter_ready(_, _)
filter_ready(tasks, i) ==
    IF i > Len(tasks)
    THEN <<>>
    ELSE IF tasks[i].state = "ready" /\ _deps_satisfied(tasks[i], tasks)
    THEN <<i>> \o filter_ready(tasks, i + 1)
    ELSE filter_ready(tasks, i + 1)

\* sorted(candidates, key=order): a stable sort, here by insertion.
RECURSIVE insert_by_order(_, _, _)
insert_by_order(tasks, sorted_seq, i) ==
    IF sorted_seq = <<>>
    THEN <<i>>
    ELSE IF tasks[i].order < tasks[Head(sorted_seq)].order
    THEN <<i>> \o sorted_seq
    ELSE <<Head(sorted_seq)>> \o insert_by_order(tasks, Tail(sorted_seq), i)

RECURSIVE sorted_by_order(_, _)
sorted_by_order(tasks, candidates) ==
    IF candidates = <<>>
    THEN <<>>
    ELSE insert_by_order(
             tasks,
             sorted_by_order(tasks, SubSeq(candidates, 1, Len(candidates) - 1)),
             candidates[Len(candidates)])

\* The position in `tasks` of the task returned; 0 for None.
get_next_runnable_task(tasks) ==
    LET candidates == filter_ready(tasks, 1)
    IN IF candidates = <<>>
       THEN 0
       ELSE sorted_by_order(tasks, candidates)[1]

\* all_tasks_done with any() in the place of all().
all_tasks_done_any(tasks) ==
    \E i \in 1..Len(tasks) : tasks[i].state \in {"done", "archived"}

all_tasks_done(tasks) ==
    \A i \in 1..Len(tasks) : tasks[i].state \in {"done", "archived"}

-----------------------------------------------------------------------------
(* models.py and state.py: the project state and its store *)

\* ProjectState(project_name): the state init_state creates and saves.
ProjectState ==
    [phase |-> "brainstorm", spec_approved |-> FALSE, plan_approved |-> FALSE,
     tasks_approved |-> FALSE, tasks |-> <<>>, escalations |-> <<>>,
     updated_at |-> 0]

Escalation(id, task_id, reason) ==
    [id |-> id, task_id |-> task_id, reason |-> reason, resolved |-> FALSE,
     resolution |-> ""]

\* save_state(state): the whole document replaces state.json.
save_state(state) == mem' = state /\ disk' = state

\* get_task(state, task_id): the position of the first task with that id,
\* 0 for KeyError.
get_task(state, task_id) ==
    LET found == {i \in 1..Len(state.tasks) : state.tasks[i].id = task_id}
    IN IF found = {} THEN 0 ELSE CHOOSE i \in found : \A j \in found : i <= j

\* The file name save_run_log writes: {task_id}_{role}_{attempt}.json.
run_log_name(task_id, role, attempt) == <<task_id, role, attempt>>

save_run_log(task_id, role, attempt) ==
    runlogs' = runlogs \cup {run_log_name(task_id, role, attempt)}

-----------------------------------------------------------------------------
(* The running command *)

Idle ==
    [pc |-> "idle", cmd |-> NULL, task |-> 0, attempt |-> 0, label |-> "",
     esc |-> 0, answer |-> NULL]

NoCall == [task |-> 0, calls |-> <<>>, result |-> NULL]

\* An exception leaves run_task: nothing catches it, and the command will
\* end with a traceback.
Raise(call) ==
    /\ proc' = [proc EXCEPT !.pc = "raised"]
    /\ calls' = [call EXCEPT !.result = "raised"]
    /\ UNCHANGED <<mem, disk>>

\* run_task returns True or False to its caller.
Return(call, success) ==
    /\ proc' = [proc EXCEPT !.pc = "returned", !.answer = NULL]
    /\ calls' = [call EXCEPT !.result = IF success THEN "true" ELSE "false"]

\* The variables of the other specifications, unused in Spec.
NoTest == <<>>

UnchangedTests == UNCHANGED <<tt, ph, rs>>

UnchangedProgram == UNCHANGED <<mem, disk, proc, runlogs, calls>>

-----------------------------------------------------------------------------
(* cli.py and transitions.py: the planning commands and their sessions *)

SessionCommands == {"brainstorm", "spec", "plan", "tasks"}

\* The phases a session command accepts, and the phase it moves on from.
valid_phases(cmd) ==
    CASE cmd = "brainstorm" -> {"brainstorm"}
      [] cmd = "spec"       -> {"spec_draft", "brainstorm"}
      [] cmd = "plan"       -> {"plan_draft", "spec_approved"}
      [] cmd = "tasks"      -> {"tasks_generated", "plan_approved"}

entry_transition(cmd) ==
    CASE cmd = "brainstorm" -> [from |-> NULL, to |-> NULL]
      [] cmd = "spec"       -> [from |-> "brainstorm", to |-> "spec_draft"]
      [] cmd = "plan"       -> [from |-> "spec_approved", to |-> "plan_draft"]
      [] cmd = "tasks"      -> [from |-> "plan_approved", to |-> "tasks_generated"]

\* nova brainstorm | spec | plan | tasks, up to the start of the session.
CliSession ==
    /\ proc.pc = "idle"
    /\ \E cmd \in SessionCommands :
        LET state == disk
        IN IF state.phase \notin valid_phases(cmd)
           THEN /\ proc' = Idle
                /\ UNCHANGED <<mem, disk>>
           ELSE /\ proc' = [Idle EXCEPT !.pc = "session", !.cmd = cmd]
                /\ IF state.phase = entry_transition(cmd).from
                   THEN save_state(
                            transition_phase(state, entry_transition(cmd).to, now).state)
                   ELSE UNCHANGED <<mem, disk>>
    /\ UNCHANGED <<runlogs, calls>>
    /\ UnchangedTests

\* session.py TRANSITION_KEYWORDS: the actions a user's message can name.
TransitionActions ==
    {"approved", "ready_for_spec", "ready_for_plan", "ready_for_tasks"}

\* PHASE_ACTIONS: the keys, and the target phase of each (NULL for none).
PHASE_ACTIONS ==
    {<<"brainstorm", "approved">>, <<"brainstorm", "ready_for_spec">>,
     <<"spec_draft", "approved">>, <<"plan_draft", "approved">>,
     <<"plan_draft", "ready_for_tasks">>, <<"tasks_generated", "approved">>}

target_phase(key) ==
    CASE key[1] = "brainstorm"      -> "spec_draft"
      [] key[1] = "spec_draft"      -> "spec_approved"
      [] key[1] = "plan_draft"      -> "plan_approved"
      [] key[1] = "tasks_generated" -> NULL

\* The task lists a Planner response can carry: n items, item i with id i,
\* in one of these shapes.
\*   independent  no dependencies, no order given
\*   chain        item i depends on item i - 1, no order given
\*   reversed     item i depends on item i + 1, orders n down to 1
\*   dangling     the last item depends on an id of no item, no order given
TaskListShapes == {"independent", "chain", "reversed", "dangling"}

\* An item as the JSON gives it; order 0 stands for an item without "order".
planner_item(shape, n, i) ==
    [order |-> IF shape = "reversed" THEN n + 1 - i ELSE 0,
     dependencies |->
         CASE shape = "chain" /\ i > 1    -> {i - 1}
           [] shape = "reversed" /\ i < n -> {i + 1}
           [] shape = "dangling" /\ i = n -> {n + 1}
           [] OTHER                       -> {}]

PlannerTaskLists ==
    {[i \in 1..n |-> planner_item(shape, n, i)] :
        n \in 0..MaxTasks, shape \in TaskListShapes}

\* _save_and_parse_tasks: the new task list, every task in state new.
parse_tasks(task_list) ==
    [i \in 1..Len(task_list) |->
        Task(i, "new",
             IF task_list[i].order = 0 THEN i ELSE task_list[i].order,
             task_list[i].dependencies)]

\* handle_transition(action, messages, state) for a key of PHASE_ACTIONS;
\* `parsed` is whether the task JSON of the last response parses, and
\* `task_list` is what it holds.
handle_transition(state, action, parsed, task_list) ==
    LET key == <<state.phase, action>>
        s1 == IF key[1] = "tasks_generated" /\ parsed
              THEN [state EXCEPT !.tasks = parse_tasks(task_list)]
              ELSE state
        s2 == IF target_phase(key) # NULL
              THEN transition_phase(s1, target_phase(key), now).state
              ELSE s1
        s3 == IF key = <<"tasks_generated", "approved">>
              THEN [s2 EXCEPT
                      !.tasks_approved = TRUE,
                      !.tasks = [i \in 1..Len(s2.tasks) |->
                                    IF s2.tasks[i].state = "new"
                                    THEN [s2.tasks[i] EXCEPT !.state = "ready"]
                                    ELSE s2.tasks[i]]]
              ELSE s2
    IN s3

\* One message of the user in a session: a transition keyword that the phase
\* accepts ends the session, one it does not accept changes nothing.
SessionTransition ==
    /\ proc.pc = "session"
    /\ \E action \in TransitionActions, parsed \in BOOLEAN,
          task_list \in PlannerTaskLists :
        /\ parsed \/ task_list = <<>>
        /\ IF <<mem.phase, action>> \in PHASE_ACTIONS
           THEN /\ save_state(handle_transition(mem, action, parsed, task_list))
                /\ proc' = Idle
           ELSE UNCHANGED <<mem, disk, proc>>
    /\ UNCHANGED <<runlogs, calls>>
    /\ UnchangedTests

\* The user leaves the session ("exit", or an interrupt).
SessionExit ==
    /\ proc.pc = "session"
    /\ proc' = Idle
    /\ UNCHANGED <<mem, disk, runlogs, calls>>
    /\ UnchangedTests

-----------------------------------------------------------------------------
(* cli.py: the execution commands *)

\* run_task is entered only while the escalation list is below the bound
\* of the model (every run_task call adds at most one escalation).
WithinBounds(state) == Len(state.escalations) < MaxEscalations

\* nova run: run_project up to the call of run_pipeline.
CliRun ==
    /\ proc.pc = "idle"
    /\ LET state == disk
       IN IF state.phase \notin {"tasks_generated", "executing"}
          THEN /\ proc' = Idle
               /\ UNCHANGED <<mem, disk>>
          ELSE IF ~state.tasks_approved
          THEN /\ proc' = Idle
               /\ UNCHANGED <<mem, disk>>
          ELSE /\ proc' = [Idle EXCEPT !.pc = "pipeline", !.cmd = "run"]
               /\ IF state.phase = "tasks_generated"
                  THEN save_state(transition_phase(state, "executing", now).state)
                  ELSE UNCHANGED <<mem, disk>>
    /\ UNCHANGED <<runlogs, calls>>
    /\ UnchangedTests

\* The task ids a user can name: those of the tasks, and one of no task.
TaskIds == 1..(MaxTasks + 1)

\* task_run taking a done task as well, and making it ready again.
CliTask_reruns_done ==
    /\ proc.pc = "idle"
    /\ \E task_id \in TaskIds :
        LET state == disk
        IN IF state.phase \notin {"tasks_generated", "executing"}
           THEN /\ proc' = Idle
                /\ UNCHANGED <<mem, disk>>
           ELSE LET s1 == IF state.phase = "tasks_generated"
                          THEN transition_phase(state, "executing", now).state
                          ELSE state
                    i == get_task(s1, task_id)
                IN IF i = 0
                   THEN /\ proc' = Idle
                        /\ save_state(s1)
                   ELSE IF s1.tasks[i].state \notin {"ready", "blocked", "done"}
                   THEN /\ proc' = Idle
                        /\ save_state(s1)
                   ELSE /\ WithinBounds(s1)
                        /\ proc' = [Idle EXCEPT !.pc = "run_task",
                                                !.cmd = "task", !.task = i]
                        /\ IF s1.tasks[i].state = "blocked"
                           THEN save_state(
                                    [s1 EXCEPT !.tasks[i] =
                                        transition_task(@, "ready", now).task])
                           ELSE save_state(
                                    [s1 EXCEPT !.tasks[i].state = "ready"])
    /\ UNCHANGED <<runlogs, calls>>
    /\ UnchangedTests

\* nova task <id>: task_run up to the call of run_task.
CliTask ==
    /\ proc.pc = "idle"
    /\ \E task_id \in TaskIds :
        LET state == disk
        IN IF state.phase \notin {"tasks_generated", "executing"}
           THEN /\ proc' = Idle
                /\ UNCHANGED <<mem, disk>>
           ELSE LET s1 == IF state.phase = "tasks_generated"
                          THEN transition_phase(state, "executing", now).state
                          ELSE state
                    i == get_task(s1, task_id)
                IN IF i = 0
                   THEN /\ proc' = Idle
                        /\ save_state(s1)
                   ELSE IF s1.tasks[i].state \notin {"ready", "blocked"}
                   THEN /\ proc' = Idle
                        /\ save_state(s1)
                   ELSE /\ WithinBounds(s1)
                        /\ proc' = [Idle EXCEPT !.pc = "run_task",
                                                !.cmd = "task", !.task = i]
                        /\ IF s1.tasks[i].state = "blocked"
                           THEN save_state(
                                    [s1 EXCEPT !.tasks[i] =
                                        transition_task(@, "ready", now).task])
                           ELSE save_state(s1)
    /\ UNCHANGED <<runlogs, calls>>
    /\ UnchangedTests

-----------------------------------------------------------------------------
(* runner.py: run_pipeline *)

ALL_COMPLETE == "All tasks complete!"
TASKS_BLOCKED == "task(s) blocked. Resolve before continuing."
DEPENDENCIES_NOT_MET == "task(s) READY but dependencies not met."
NO_RUNNABLE == "No runnable tasks found."

\* Lines 920-936 with the ready tasks looked at before the blocked ones.
pipeline_report_ready_first(tasks) ==
    IF all_tasks_done(tasks)
    THEN ALL_COMPLETE
    ELSE IF \E i \in 1..Len(tasks) : tasks[i].state = "ready"
    THEN DEPENDENCIES_NOT_MET
    ELSE IF \E i \in 1..Len(tasks) : tasks[i].state = "blocked"
    THEN TASKS_BLOCKED
    ELSE NO_RUNNABLE

\* Lines 920-936: what run_pipeline prints when the resolver returned None.
pipeline_report(tasks) ==
    IF all_tasks_done(tasks)
    THEN ALL_COMPLETE
    ELSE IF \E i \in 1..Len(tasks) : tasks[i].state = "blocked"
    THEN TASKS_BLOCKED
    ELSE IF \E i \in 1..Len(tasks) : tasks[i].state = "ready"
    THEN DEPENDENCIES_NOT_MET
    ELSE NO_RUNNABLE

\* Lines 918-937: the resolver is asked; with no runnable task the loop
\* ends, with the phase moved to complete when every task is done.
PipelineNext ==
    LET i == get_next_runnable_task(mem.tasks)
    IN IF i = 0
       THEN /\ proc' = Idle
            /\ calls' = NoCall
            /\ IF pipeline_report(mem.tasks) = ALL_COMPLETE
               THEN LET r == transition_phase(mem, "complete", now)
                    IN IF r.raised
                       THEN UNCHANGED <<mem, disk, runlogs>>
                       ELSE /\ save_state(r.state)
                            /\ save_run_log("retro", "distiller", 0)
               ELSE UNCHANGED <<mem, disk, runlogs>>
       ELSE /\ WithinBounds(mem)
            /\ proc' = [proc EXCEPT !.pc = "run_task", !.task = i]
            /\ UNCHANGED <<mem, disk, runlogs, calls>>

\* Lines 939-953 without the break of lines 941-943: the loop goes on after
\* a failure.
PipelineReturned_continues ==
    /\ IF all_tasks_done(mem.tasks) \/ calls.result # "true"
       THEN proc' = [Idle EXCEPT !.pc = "pipeline", !.cmd = "run"]
            /\ UNCHANGED calls
       ELSE proc' = [Idle EXCEPT !.pc = "confirm", !.cmd = "run"]
            /\ UNCHANGED calls
    /\ UNCHANGED <<mem, disk, runlogs>>

\* Lines 939-953: run_task has returned; a failure ends the loop, a success
\* goes on at once when nothing remains and asks for confirmation otherwise.
PipelineReturned ==
    /\ IF calls.result # "true"
       THEN proc' = Idle /\ calls' = NoCall
       ELSE IF all_tasks_done(mem.tasks)
       THEN proc' = [Idle EXCEPT !.pc = "pipeline", !.cmd = "run"]
            /\ UNCHANGED calls
       ELSE proc' = [Idle EXCEPT !.pc = "confirm", !.cmd = "run"]
            /\ UNCHANGED calls
    /\ UNCHANGED <<mem, disk, runlogs>>

\* Lines 954-962: "Continue to next task?": go on, or pause the pipeline.
PipelineConfirm ==
    /\ \E answer \in {"y", "n"} :
        IF answer = "n"
        THEN proc' = Idle /\ calls' = NoCall
        ELSE proc' = [proc EXCEPT !.pc = "pipeline"] /\ UNCHANGED calls
    /\ UNCHANGED <<mem, disk, runlogs>>

\* The next step of run_pipeline.
Pipeline ==
    /\ proc.cmd = "run"
    /\ proc.pc \in {"pipeline", "returned", "confirm"}
    /\ CASE proc.pc = "pipeline" -> PipelineNext
         [] proc.pc = "returned" -> PipelineReturned
         [] proc.pc = "confirm"  -> PipelineConfirm
    /\ UnchangedTests

\* A command ends: run-single-task-by-id when run_task has returned
\* (cli.py line 363), any command when an exception has left run_task.
CommandEnd ==
    /\ \/ proc.pc = "returned" /\ proc.cmd = "task"
       \/ proc.pc = "raised"
    /\ proc' = Idle
    /\ calls' = NoCall
    /\ mem' = disk
    /\ UNCHANGED <<disk, runlogs>>
    /\ UnchangedTests

-----------------------------------------------------------------------------
(* runner.py: run_task, the attempt loop and the escalation *)

AFTER_ESCALATION == " (after escalation)"

\* The reason of line 772 without the label.
coder_blocked_reason_unlabelled(label) ==
    "Coder could not complete the task"

coder_blocked_reason(label) ==
    IF label = ""
    THEN "Coder could not complete the task"
    ELSE "Coder could not complete the task (after escalation)"

failed_qa_reason(label) ==
    IF label = ""
    THEN "Failed QA after 3 attempts"
    ELSE "Failed QA after 3 attempts (after escalation)"

qa_blocked_reason == "QA blocked: <notes>"

human_needed_reason == "Planner: human intervention needed - <guidance>"

\* An agent invocation for the task at position i: its run log is written
\* under the task's attempt, and the call is noted with the agent's answer.
Invoke(i, role, answer) ==
    /\ save_run_log(mem.tasks[i].id, role, mem.tasks[i].attempt)
    /\ calls' = [calls EXCEPT !.calls = Append(@, <<role, answer>>)]
    /\ proc' = [proc EXCEPT !.pc = role \o "_ret", !.answer = answer]

\* run_task, lines 822-826: the task goes to in_progress.
RunTaskEnter ==
    LET i == proc.task
        r == transition_task(mem.tasks[i], "in_progress", now)
        call == [task |-> i, calls |-> <<>>, result |-> NULL]
    IN IF r.raised
       THEN Raise(call) /\ UNCHANGED runlogs
       ELSE /\ save_state([mem EXCEPT !.tasks[i] = r.task])
            /\ proc' = [proc EXCEPT !.pc = "coder", !.attempt = 0, !.label = ""]
            /\ calls' = call
            /\ UNCHANGED runlogs

\* _run_coder: the build agent is invoked and answers complete or blocked.
CoderCall ==
    /\ \E status \in {"complete", "blocked"} :
        Invoke(proc.task, "coder", status)
    /\ UNCHANGED <<mem, disk>>

\* Lines 770-778 with a blocked build result retried while attempts remain.
CoderRet_retries_blocked ==
    LET i == proc.task
    IN IF proc.answer = "blocked"
       THEN IF proc.attempt < MAX_ATTEMPTS - 1
            THEN /\ proc' = [proc EXCEPT !.pc = "coder", !.answer = NULL,
                                         !.attempt = @ + 1]
                 /\ UNCHANGED <<mem, disk, runlogs, calls>>
            ELSE /\ save_state(
                       [mem EXCEPT !.tasks[i] =
                           [transition_task(mem.tasks[i], "blocked", now).task
                               EXCEPT !.blocked_reason =
                                   coder_blocked_reason(proc.label)]])
                 /\ proc' = [proc EXCEPT !.pc = "loop_ret", !.answer = "false"]
                 /\ UNCHANGED <<runlogs, calls>>
       ELSE LET r == transition_task(mem.tasks[i], "in_qa", now)
            IN IF r.raised
               THEN Raise(calls) /\ UNCHANGED runlogs
               ELSE /\ save_state([mem EXCEPT !.tasks[i] = r.task])
                    /\ proc' = [proc EXCEPT !.pc = "qa", !.answer = NULL]
                    /\ UNCHANGED <<runlogs, calls>>

\* _run_coder_qa_loop, lines 770-778.
CoderRet ==
    LET i == proc.task
    IN IF proc.answer = "blocked"
       THEN LET r == transition_task(mem.tasks[i], "blocked", now)
            IN IF r.raised
               THEN Raise(calls) /\ UNCHANGED runlogs
               ELSE /\ save_state(
                          [mem EXCEPT !.tasks[i] =
                              [r.task EXCEPT !.blocked_reason =
                                  coder_blocked_reason(proc.label)]])
                    /\ proc' = [proc EXCEPT !.pc = "loop_ret", !.answer = "false"]
                    /\ UNCHANGED <<runlogs, calls>>
       ELSE LET r == transition_task(mem.tasks[i], "in_qa", now)
            IN IF r.raised
               THEN Raise(calls) /\ UNCHANGED runlogs
               ELSE /\ save_state([mem EXCEPT !.tasks[i] = r.task])
                    /\ proc' = [proc EXCEPT !.pc = "qa", !.answer = NULL]
                    /\ UNCHANGED <<runlogs, calls>>

\* Lines 780-786: the build commands run and the validator is invoked.
QaCall ==
    /\ \E verdict \in {"pass", "fail", "blocked"} :
        Invoke(proc.task, "qa", verdict)
    /\ UNCHANGED <<mem, disk>>

\* Lines 788-810: the verdict decides.
QaRet ==
    LET i == proc.task
        target == IF proc.answer = "pass" THEN "done"
                  ELSE IF proc.answer = "blocked" THEN "blocked"
                  ELSE IF proc.attempt < MAX_ATTEMPTS - 1 THEN "in_progress"
                  ELSE "blocked"
        r == transition_task(mem.tasks[i], target, now)
    IN IF r.raised
       THEN Raise(calls) /\ UNCHANGED runlogs
       ELSE /\ UNCHANGED <<runlogs, calls>>
            /\ IF proc.answer = "pass"
               THEN /\ save_state([mem EXCEPT !.tasks[i] = r.task])
                    /\ proc' = [proc EXCEPT !.pc = "loop_ret", !.answer = "true"]
               ELSE IF proc.answer = "blocked"
               THEN /\ save_state(
                          [mem EXCEPT !.tasks[i] =
                              [r.task EXCEPT !.blocked_reason = qa_blocked_reason]])
                    /\ proc' = [proc EXCEPT !.pc = "loop_ret", !.answer = "false"]
               ELSE IF proc.attempt < MAX_ATTEMPTS - 1
               THEN /\ save_state([mem EXCEPT !.tasks[i] = r.task])
                    /\ proc' = [proc EXCEPT !.pc = "coder", !.answer = NULL,
                                            !.attempt = @ + 1]
               ELSE /\ save_state(
                          [mem EXCEPT !.tasks[i] =
                              [r.task EXCEPT !.blocked_reason =
                                  failed_qa_reason(proc.label)]])
                    /\ proc' = [proc EXCEPT !.pc = "loop_ret", !.answer = "false"]

\* _create_escalation setting escalation_id on every task of the list.
_create_escalation_marks_every_task(state, i, reason) ==
    LET esc_id == <<state.tasks[i].id, Len(state.escalations) + 1>>
    IN [state EXCEPT
          !.escalations = Append(@, Escalation(esc_id, state.tasks[i].id, reason)),
          !.tasks = [j \in 1..Len(@) |-> [@[j] EXCEPT !.escalation_id = esc_id]]]

\* _create_escalation(task, state, from_role, reason).
_create_escalation(state, i, reason) ==
    LET esc_id == <<state.tasks[i].id, Len(state.escalations) + 1>>
    IN [state EXCEPT
          !.escalations = Append(@, Escalation(esc_id, state.tasks[i].id, reason)),
          !.tasks[i].escalation_id = esc_id]

\* _resolve_escalation(escalation, resolution, state), the escalation given
\* by its position in state.escalations.
_resolve_escalation(state, e, resolution) ==
    [state EXCEPT !.escalations[e].resolved = TRUE,
                  !.escalations[e].resolution = resolution]

\* LoopRet escalating after the second loop as after the first.
LoopRet_escalates_again ==
    LET i == proc.task
    IN /\ UNCHANGED runlogs
       /\ IF proc.answer = "true"
          THEN Return(calls, TRUE) /\ UNCHANGED <<mem, disk>>
          ELSE IF mem.tasks[i].state # "blocked"
          THEN Return(calls, FALSE) /\ UNCHANGED <<mem, disk>>
          ELSE /\ save_state(
                     _create_escalation(
                         mem, i,
                         IF mem.tasks[i].blocked_reason # NULL
                         THEN mem.tasks[i].blocked_reason
                         ELSE "Max attempts reached"))
               /\ proc' = [proc EXCEPT !.pc = "planner", !.answer = NULL,
                                       !.esc = Len(mem.escalations) + 1]
               /\ UNCHANGED calls

\* The attempt loop has returned to run_task: lines 838-851 after the
\* primary loop, line 879 after the loop that follows an escalation.
LoopRet ==
    LET i == proc.task
        success == proc.answer = "true"
    IN /\ UNCHANGED runlogs
       /\ IF proc.label # ""
          THEN Return(calls, success) /\ UNCHANGED <<mem, disk>>
          ELSE IF success
          THEN Return(calls, TRUE) /\ UNCHANGED <<mem, disk>>
          ELSE IF mem.tasks[i].state # "blocked"
          THEN Return(calls, FALSE) /\ UNCHANGED <<mem, disk>>
          ELSE /\ save_state(
                     _create_escalation(
                         mem, i,
                         IF mem.tasks[i].blocked_reason # NULL
                         THEN mem.tasks[i].blocked_reason
                         ELSE "Max attempts reached"))
               /\ proc' = [proc EXCEPT !.pc = "planner", !.answer = NULL,
                                       !.esc = Len(mem.escalations) + 1]
               /\ UNCHANGED calls

\* _run_escalation: the decision agent is invoked; its resolution is retry,
\* human_needed or anything else (a degraded result has resolution "").
PlannerCall ==
    /\ \E resolution \in {"retry", "human_needed", ""} :
        Invoke(proc.task, "planner", resolution)
    /\ UNCHANGED <<mem, disk>>

\* Lines 853-894 with an unclear resolution resolving the escalation.
PlannerRet_resolves_unclear ==
    /\ UNCHANGED runlogs
    /\ IF proc.answer = "retry"
       THEN /\ save_state(_resolve_escalation(mem, proc.esc, "<summary>"))
            /\ proc' = [proc EXCEPT !.pc = "retry_reset", !.answer = NULL]
            /\ UNCHANGED calls
       ELSE IF proc.answer = "human_needed"
       THEN /\ save_state(
                  _resolve_escalation(mem, proc.esc, "Human needed: <summary>"))
            /\ proc' = [proc EXCEPT !.pc = "human_needed", !.answer = NULL]
            /\ UNCHANGED calls
       ELSE /\ save_state(_resolve_escalation(mem, proc.esc, "<summary>"))
            /\ Return(calls, FALSE)

\* Lines 855-860, 885-886, 892-894.
PlannerRet ==
    /\ UNCHANGED runlogs
    /\ IF proc.answer = "retry"
       THEN /\ save_state(_resolve_escalation(mem, proc.esc, "<summary>"))
            /\ proc' = [proc EXCEPT !.pc = "retry_reset", !.answer = NULL]
            /\ UNCHANGED calls
       ELSE IF proc.answer = "human_needed"
       THEN /\ save_state(
                  _resolve_escalation(mem, proc.esc, "Human needed: <summary>"))
            /\ proc' = [proc EXCEPT !.pc = "human_needed", !.answer = NULL]
            /\ UNCHANGED calls
       ELSE Return(calls, FALSE) /\ UNCHANGED <<mem, disk>>

\* Lines 863-866: the task is reset for the retry.
RetryReset ==
    LET i == proc.task
        r == transition_task(mem.tasks[i], "ready", now)
    IN IF r.raised
       THEN Raise(calls) /\ UNCHANGED runlogs
       ELSE /\ save_state(
                  [mem EXCEPT !.tasks[i] =
                      [r.task EXCEPT !.attempt = 0, !.blocked_reason = NULL]])
            /\ proc' = [proc EXCEPT !.pc = "retry_start"]
            /\ UNCHANGED <<runlogs, calls>>

\* Lines 868-883 without the save_state of line 869.
RetryStart_unsaved ==
    LET i == proc.task
        r == transition_task(mem.tasks[i], "in_progress", now)
    IN IF r.raised
       THEN Raise(calls) /\ UNCHANGED runlogs
       ELSE /\ mem' = [mem EXCEPT !.tasks[i] = r.task]
            /\ proc' = [proc EXCEPT !.pc = "coder", !.attempt = 0,
                                    !.label = AFTER_ESCALATION]
            /\ UNCHANGED <<disk, runlogs, calls>>

\* Lines 868-883: the task goes to in_progress and the loop is entered again.
RetryStart ==
    LET i == proc.task
        r == transition_task(mem.tasks[i], "in_progress", now)
    IN IF r.raised
       THEN Raise(calls) /\ UNCHANGED runlogs
       ELSE /\ save_state([mem EXCEPT !.tasks[i] = r.task])
            /\ proc' = [proc EXCEPT !.pc = "coder", !.attempt = 0,
                                    !.label = AFTER_ESCALATION]
            /\ UNCHANGED <<runlogs, calls>>

\* Lines 887-890 without the assignment to task.blocked_reason.
HumanNeeded_reason_kept ==
    /\ save_state(mem)
    /\ Return(calls, FALSE)
    /\ UNCHANGED runlogs

\* Lines 887-890.
HumanNeeded ==
    LET i == proc.task
        s == [mem EXCEPT !.tasks[i].blocked_reason = human_needed_reason]
    IN /\ save_state(s)
       /\ Return(calls, FALSE)
       /\ UNCHANGED runlogs

RunTaskPcs ==
    {"run_task", "coder", "coder_ret", "qa", "qa_ret", "loop_ret", "planner",
     "planner_ret", "retry_reset", "retry_start", "human_needed"}

\* The next step of run_task.
RunTask ==
    /\ proc.pc \in RunTaskPcs
    /\ CASE proc.pc = "run_task"     -> RunTaskEnter
         [] proc.pc = "coder"        -> CoderCall
         [] proc.pc = "coder_ret"    -> CoderRet
         [] proc.pc = "qa"           -> QaCall
         [] proc.pc = "qa_ret"       -> QaRet
         [] proc.pc = "loop_ret"     -> LoopRet
         [] proc.pc = "planner"      -> PlannerCall
         [] proc.pc = "planner_ret"  -> PlannerRet
         [] proc.pc = "retry_reset"  -> RetryReset
         [] proc.pc = "retry_start"  -> RetryStart
         [] proc.pc = "human_needed" -> HumanNeeded
    /\ UnchangedTests

\* The process is terminated while a command runs: what was saved stays.
Terminate ==
    /\ proc.pc # "idle"
    /\ proc' = Idle
    /\ calls' = NoCall
    /\ mem' = disk
    /\ UNCHANGED <<disk, runlogs>>
    /\ UnchangedTests

-----------------------------------------------------------------------------
(* The program *)

Init ==
    /\ mem = ProjectState
    /\ disk = ProjectState
    /\ proc = Idle
    /\ runlogs = {}
    /\ calls = NoCall
    /\ tt = NoTest
    /\ ph = NoTest
    /\ rs = NoTest

Next ==
    \/ CliSession
    \/ SessionTransition
    \/ SessionExit
    \/ CliRun
    \/ CliTask
    \/ Pipeline
    \/ RunTask
    \/ CommandEnd
    \/ Terminate

Spec == Init /\ [][Next]_vars

-----------------------------------------------------------------------------
(* SpecTask: transition_task called on any task, with any target, again and
   again on the task it returns, for up to MaxSteps accepted transitions;
   `first` is the task at the start and `path` the states it has been in *)

TaskInputs ==
    {[Task(1, state, 1, {}) EXCEPT !.attempt = attempt,
                                   !.blocked_reason = blocked_reason,
                                   !.escalation_id = escalation_id,
                                   !.updated_at = updated_at] :
        state \in TaskState, attempt \in 0..MaxAttemptInput,
        blocked_reason \in {NULL, "<reason>"},
        escalation_id \in {NoId, <<1, 1>>},
        updated_at \in 0..MaxStampInput}

InitTask ==
    /\ mem = ProjectState
    /\ disk = ProjectState
    /\ proc = Idle
    /\ runlogs = {}
    /\ calls = NoCall
    /\ ph = NoTest
    /\ rs = NoTest
    /\ \E task \in TaskInputs :
        tt = [task |-> task, first |-> task, path |-> <<task.state>>,
              steps |-> 0, called |-> FALSE, before |-> task,
              target |-> NULL, raised |-> FALSE]

CallTransitionTask ==
    /\ tt.steps < MaxSteps
    /\ \E target \in TaskState :
        LET r == transition_task(tt.task, target, utcnow(tt.task.updated_at))
        IN tt' = [task |-> r.task, first |-> tt.first,
                  path |-> IF r.raised THEN tt.path
                           ELSE Append(tt.path, r.task.state),
                  steps |-> IF r.raised THEN tt.steps ELSE tt.steps + 1,
                  called |-> TRUE, before |-> tt.task, target |-> target,
                  raised |-> r.raised]
    /\ UNCHANGED <<ph, rs>>
    /\ UnchangedProgram

SpecTask == InitTask /\ [][CallTransitionTask]_vars

-----------------------------------------------------------------------------
(* SpecPhase: transition_phase called on any project state, with any target,
   again and again on the state it returns *)

PhaseInputs ==
    {[ProjectState EXCEPT !.phase = phase, !.spec_approved = sa,
                          !.plan_approved = pa, !.tasks_approved = ta,
                          !.updated_at = updated_at] :
        phase \in ProjectPhase, sa \in BOOLEAN, pa \in BOOLEAN,
        ta \in BOOLEAN, updated_at \in 0..MaxStampInput}

InitPhase ==
    /\ mem = ProjectState
    /\ disk = ProjectState
    /\ proc = Idle
    /\ runlogs = {}
    /\ calls = NoCall
    /\ tt = NoTest
    /\ rs = NoTest
    /\ \E state \in PhaseInputs :
        ph = [state |-> state, called |-> FALSE, before |-> state,
              target |-> NULL, raised |-> FALSE]

CallTransitionPhase ==
    /\ \E target \in ProjectPhase :
        LET r == transition_phase(ph.state, target, utcnow(ph.state.updated_at))
        IN ph' = [state |-> r.state, called |-> TRUE, before |-> ph.state,
                  target |-> target, raised |-> r.raised]
    /\ UNCHANGED <<tt, rs>>
    /\ UnchangedProgram

SpecPhase == InitPhase /\ [][CallTransitionPhase]_vars

-----------------------------------------------------------------------------
(* SpecResolver: get_next_runnable_task called on any task list, and called
   again with nothing done in between; `given` is the list before the first
   call and `previous` the result of the call before the last *)

ResolverStates == {"ready", "in_progress", "done", "archived"}

\* Task i has id i; it depends on nothing, on one id (n + 1 is the id of no
\* task) or on the first two.
ResolverDependencies(n) == {{}} \cup {{d} : d \in 1..(n + 1)} \cup {{1, 2}}

ResolverInputs ==
    UNION {[1..n -> [state : ResolverStates, order : 1..MaxOrder,
                     dependencies : ResolverDependencies(n)]]
           : n \in 0..MaxResolverTasks}

InitResolver ==
    /\ mem = ProjectState
    /\ disk = ProjectState
    /\ proc = Idle
    /\ runlogs = {}
    /\ calls = NoCall
    /\ tt = NoTest
    /\ ph = NoTest
    /\ \E input \in ResolverInputs :
        rs = [tasks |-> [i \in 1..Len(input) |->
                            Task(i, input[i].state, input[i].order,
                                 input[i].dependencies)],
              given |-> [i \in 1..Len(input) |->
                            Task(i, input[i].state, input[i].order,
                                 input[i].dependencies)],
              called |-> FALSE, result |-> 0, again |-> FALSE,
              previous |-> 0]

\* A resolver that takes the task it returns: it marks the task in_progress.
CallResolver_takes_task ==
    /\ ~rs.again
    /\ LET i == get_next_runnable_task(rs.tasks)
       IN rs' = [rs EXCEPT !.called = TRUE,
                           !.result = i,
                           !.again = rs.called,
                           !.previous = rs.result,
                           !.tasks = IF i = 0 THEN @
                                     ELSE [@ EXCEPT ![i].state = "in_progress"]]
    /\ UNCHANGED <<tt, ph>>
    /\ UnchangedProgram

CallResolver ==
    /\ ~rs.again
    /\ rs' = [rs EXCEPT !.called = TRUE,
                        !.result = get_next_runnable_task(rs.tasks),
                        !.again = rs.called,
                        !.previous = rs.result]
    /\ UNCHANGED <<tt, ph>>
    /\ UnchangedProgram

SpecResolver == InitResolver /\ [][CallResolver]_vars

-----------------------------------------------------------------------------
(* SpecReport: one pass of the loop of run_pipeline on any task list *)

MaxReportTasks == 2

\* The states of the tasks of an approved list: the approval has moved every
\* new task to ready.
ReportStates == TaskState \ {"new"}

\* Task i has id i and order i; it depends on nothing or on id i - 1, which
\* for the first task is the id of no task.
ReportInputs ==
    UNION {[1..n -> [state : ReportStates, depends : BOOLEAN]]
           : n \in 0..MaxReportTasks}

InitReport ==
    /\ \E input \in ReportInputs :
        LET state == [ProjectState EXCEPT
                         !.phase = "executing",
                         !.spec_approved = TRUE,
                         !.plan_approved = TRUE,
                         !.tasks_approved = TRUE,
                         !.tasks = [i \in 1..Len(input) |->
                                       [Task(i, input[i].state, i,
                                             IF input[i].depends
                                             THEN {i - 1} ELSE {})
                                        EXCEPT !.blocked_reason =
                                            IF input[i].state = "blocked"
                                            THEN coder_blocked_reason("")
                                            ELSE NULL]]]
        IN mem = state /\ disk = state
    /\ proc = [Idle EXCEPT !.pc = "pipeline", !.cmd = "run"]
    /\ runlogs = {}
    /\ calls = NoCall
    /\ tt = NoTest
    /\ ph = NoTest
    /\ rs = [called |-> FALSE, runnable |-> 0, report |-> NULL]

\* One pass of the loop of run_pipeline, with what it prints written down.
CallPipeline ==
    /\ proc.pc = "pipeline"
    /\ PipelineNext
    /\ rs' = [called |-> TRUE,
              runnable |-> get_next_runnable_task(mem.tasks),
              report |-> IF get_next_runnable_task(mem.tasks) = 0
                         THEN pipeline_report(mem.tasks) ELSE NULL]
    /\ UNCHANGED <<tt, ph>>

SpecReport == InitReport /\ [][CallPipeline]_vars

\* The same list under the commands that run tasks, each up to its call of
\* run_task: nova run with its pass of the loop, and nova task.
SpecCommands == InitReport /\ [][CallPipeline \/ CliRun \/ CliTask]_vars

\* One invocation of run-all on the same list, from the first pass of its
\* loop to its end.  Every agent invocation returns, the prompt is answered
\* and the command ends: each step that can be taken is taken in the end.
SpecRunAll ==
    /\ InitReport
    /\ [][Pipeline \/ RunTask \/ CommandEnd]_vars
    /\ WF_vars(Pipeline)
    /\ WF_vars(RunTask)
    /\ WF_vars(CommandEnd)

-----------------------------------------------------------------------------
(* The properties *)

\* C1: every transition_task call made by run_task and by the attempt loop
\* is legal for the task's state at that point, so no invalid-transition
\* error leaves run_task: no execution of run_task ends by raising.
C1_NoInvalidTransitionEscapes == proc.pc # "raised"

\* C2: transition_task on a task in state s with target t succeeds if and
\* only if (s, t) is an edge of the task transition table, and a call that
\* fails leaves state, attempt, blocked_reason, escalation_id and updated_at
\* as they were.
C2_TransitionTaskLegal ==
    LET legal ==
            {<<"new", "ready">>, <<"ready", "in_progress">>,
             <<"in_progress", "in_review">>, <<"in_progress", "blocked">>,
             <<"in_review", "in_qa">>, <<"in_review", "in_progress">>,
             <<"in_review", "blocked">>, <<"in_qa", "done">>,
             <<"in_qa", "in_progress">>, <<"in_qa", "blocked">>,
             <<"done", "archived">>, <<"blocked", "ready">>}
    IN tt.called =>
        /\ ~tt.raised <=> <<tt.before.state, tt.target>> \in legal
        /\ ~tt.raised => tt.task.state = tt.target
        /\ tt.raised =>
            /\ tt.task.state = tt.before.state
            /\ tt.task.attempt = tt.before.attempt
            /\ tt.task.blocked_reason = tt.before.blocked_reason
            /\ tt.task.escalation_id = tt.before.escalation_id
            /\ tt.task.updated_at = tt.before.updated_at

\* An illegal call (in_progress to in_qa) on a task whose fields are all set
\* has been rejected.
C2_IllegalCallRejected ==
    /\ tt.called
    /\ tt.raised
    /\ tt.before.state = "in_progress"
    /\ tt.target = "in_qa"
    /\ tt.before.attempt > 0
    /\ tt.before.blocked_reason # NULL
    /\ tt.before.escalation_id # NoId
    /\ tt.before.updated_at > 0

\* C3: the phase machine is a linear chain: transition_phase from phase p
\* to target t succeeds if and only if t is the one successor of p (complete
\* has none), and a call that fails leaves phase, the three approval flags
\* and updated_at as they were.
C3_TransitionPhaseLinear ==
    LET chain == <<"brainstorm", "spec_draft", "spec_approved", "plan_draft",
                   "plan_approved", "tasks_generated", "executing",
                   "complete">>
        successor(p) ==
            {chain[k + 1] : k \in {j \in 1..(Len(chain) - 1) : chain[j] = p}}
    IN ph.called =>
        /\ ~ph.raised <=> ph.target \in successor(ph.before.phase)
        /\ ~ph.raised => ph.state.phase = ph.target
        /\ ph.raised =>
            /\ ph.state.phase = ph.before.phase
            /\ ph.state.spec_approved = ph.before.spec_approved
            /\ ph.state.plan_approved = ph.before.plan_approved
            /\ ph.state.tasks_approved = ph.before.tasks_approved
            /\ ph.state.updated_at = ph.before.updated_at

\* A call that skips a phase (spec_draft to plan_draft) has been rejected,
\* on a state that earlier calls have moved along the chain.
C3_SkippingCallRejected ==
    /\ ph.called
    /\ ph.raised
    /\ ph.before.phase = "spec_draft"
    /\ ph.target = "plan_draft"
    /\ ph.before.updated_at > MaxStampInput

\* C4: retry exhaustion: an attempt loop in which the build agent completed
\* and the validator returned fail every time ends with the task blocked for
\* attempt exhaustion, after exactly 3 build-agent and 3 validation-agent
\* invocations, each with its run-log entry.
C4_RetryExhaustion ==
    LET c == calls.calls
        task == mem.tasks[proc.task]
        of(role) == {k \in 1..Len(c) : c[k][1] = role}
        logs(role) == {f \in runlogs : f[1] = task.id /\ f[2] = role}
    IN (/\ proc.pc \in {"loop_ret", "raised"}
        /\ proc.label = ""
        /\ Len(c) > 0
        /\ \A k \in 1..Len(c) :
               c[k] \in {<<"coder", "complete">>, <<"qa", "fail">>})
       => /\ task.state = "blocked"
          /\ task.blocked_reason = failed_qa_reason("")
          /\ task.attempt \in {MAX_ATTEMPTS - 1, MAX_ATTEMPTS}
          /\ Cardinality(of("coder")) = MAX_ATTEMPTS
          /\ Cardinality(of("qa")) = MAX_ATTEMPTS
          /\ Cardinality(logs("coder")) = MAX_ATTEMPTS
          /\ Cardinality(logs("qa")) = MAX_ATTEMPTS

\* C5: an attempt loop that has ended on an attempt whose build-agent result
\* was not blocked and which the validator did not reject ended on the
\* validator's pass: the task is done, the state is persisted, the loop
\* returned success and no agent was invoked after that verdict.
C5_PassCompletesTask ==
    LET c == calls.calls
        n == Len(c)
    IN (/\ proc.pc \in {"loop_ret", "raised"}
        /\ n > 0
        /\ c[n] \in {<<"coder", "complete">>, <<"qa", "pass">>})
       => /\ c[n] = <<"qa", "pass">>
          /\ mem.tasks[proc.task].state = "done"
          /\ disk = mem
          /\ proc.pc = "loop_ret"
          /\ proc.answer = "true"

\* C6: escalation retry: the escalation is created unresolved; on the
\* resolution retry it is resolved and the task re-enters in_progress with
\* attempt 0 and blocked_reason and escalation_id cleared; and a run_task
\* call that ends after a successful attempt of the second loop (the build
\* agent completed, the validator rejected nothing) leaves the task done.
C6_EscalationRetry ==
    LET c == calls.calls
        n == Len(c)
        task == mem.tasks[proc.task]
        retried == \E k \in 1..n : c[k] = <<"planner", "retry">>
    IN /\ proc.pc = "planner" =>
            /\ ~mem.escalations[proc.esc].resolved
            /\ mem.escalations[proc.esc].task_id = task.id
            /\ task.state = "blocked"
       /\ (retried /\ proc.pc = "coder" /\ c[n] = <<"planner", "retry">>) =>
            /\ mem.escalations[proc.esc].resolved
            /\ task.state = "in_progress"
            /\ task.attempt = 0
            /\ task.blocked_reason = NULL
            /\ task.escalation_id = NoId
       /\ (/\ retried
           /\ proc.pc \in {"returned", "raised"}
           /\ c[n] \in {<<"coder", "complete">>, <<"qa", "pass">>})
          => /\ task.state = "done"
             /\ calls.result = "true"

\* C7: human needed: once the decision agent has returned human_needed, no
\* agent is invoked afterwards in that run_task call; the escalation is
\* resolved with the text "Human needed: ..."; the task stays blocked; and
\* run_task returns failure with a blocked_reason that embeds the guidance,
\* all of it saved.
C7_HumanNeeded ==
    LET c == calls.calls
        n == Len(c)
        task == mem.tasks[proc.task]
    IN \A k \in 1..n :
        c[k] = <<"planner", "human_needed">> =>
            /\ k = n
            /\ proc.pc \in {"planner_ret", "human_needed", "returned"}
            /\ task.state = "blocked"
            /\ proc.pc \in {"human_needed", "returned"} =>
                /\ mem.escalations[proc.esc].task_id = task.id
                /\ mem.escalations[proc.esc].resolved
                /\ mem.escalations[proc.esc].resolution
                       = "Human needed: <summary>"
            /\ proc.pc = "returned" =>
                /\ task.blocked_reason = human_needed_reason
                /\ calls.result = "false"
                /\ disk = mem

\* run_task has returned after the decision agent answered human_needed.
C7_ReturnedAfterHumanNeeded ==
    /\ proc.pc = "returned"
    /\ Len(calls.calls) > 0
    /\ calls.calls[Len(calls.calls)] = <<"planner", "human_needed">>

\* C8: escalation exclusivity: in every reachable state each task owns at
\* most one escalation with resolved = false.
C8_OneUnresolvedEscalationPerTask ==
    \A e1, e2 \in 1..Len(mem.escalations) :
        (/\ mem.escalations[e1].task_id = mem.escalations[e2].task_id
         /\ ~mem.escalations[e1].resolved
         /\ ~mem.escalations[e2].resolved)
        => e1 = e2

\* C9: no task is in_progress while an id in its dependency list is the id
\* of a task that is not done or archived, or of no task.
C9_NoStartWithUnmetDependency ==
    \A i \in 1..Len(mem.tasks) :
        mem.tasks[i].state = "in_progress" =>
            \A dep \in mem.tasks[i].dependencies :
                \E j \in 1..Len(mem.tasks) :
                    /\ mem.tasks[j].id = dep
                    /\ mem.tasks[j].state \in {"done", "archived"}

\* C10: get_next_runnable_task returns none exactly when no task is ready
\* with every dependency the id of a done or archived task; otherwise it
\* returns such a task of the smallest order, the earliest in the list on
\* ties. With T1 (order 1, no dependency) and T2 (order 2, depends on T1)
\* it returns T1 when both are ready and T2 only when T1 is done.
C10_NextRunnableTask ==
    LET tasks == rs.tasks
        n == Len(tasks)
        met(i) == \A dep \in tasks[i].dependencies :
                      \E j \in 1..n : /\ tasks[j].id = dep
                                      /\ tasks[j].state \in {"done", "archived"}
        runnable == {i \in 1..n : tasks[i].state = "ready" /\ met(i)}
        scenario == /\ n = 2
                    /\ tasks[1].order = 1 /\ tasks[1].dependencies = {}
                    /\ tasks[2].order = 2 /\ tasks[2].dependencies = {1}
    IN rs.called =>
        /\ rs.result = 0 <=> runnable = {}
        /\ rs.result # 0 =>
            /\ rs.result \in runnable
            /\ \A j \in runnable :
                \/ tasks[rs.result].order < tasks[j].order
                \/ tasks[rs.result].order = tasks[j].order /\ rs.result <= j
        /\ scenario =>
            /\ (tasks[1].state = "ready" /\ tasks[2].state = "ready")
                   => rs.result = 1
            /\ (tasks[1].state = "done" /\ tasks[2].state = "ready")
                   => rs.result = 2
            /\ rs.result = 2 => tasks[1].state \in {"done", "archived"}

\* The resolver has passed over a ready task of smaller order whose
\* dependency is not done and returned the later task.
C10_UnmetDependencyPassedOver ==
    /\ rs.called
    /\ Len(rs.tasks) = 2
    /\ rs.result = 2
    /\ rs.tasks[1].state = "ready" /\ rs.tasks[1].order = 1
    /\ rs.tasks[1].dependencies = {2}
    /\ rs.tasks[2].state = "ready" /\ rs.tasks[2].order = 2
    /\ rs.tasks[2].dependencies = {}

\* The program with run-all run again and again: a command that has started
\* goes on to its end unless the process is terminated, and the user starts
\* `nova run` again whenever no command runs.
SpecRerun ==
    /\ Init
    /\ [][Next]_vars
    /\ WF_vars(CliRun)
    /\ WF_vars(Pipeline)
    /\ WF_vars(RunTask)
    /\ WF_vars(CommandEnd)

\* C11: whatever the point at which the process was terminated, re-running
\* run-all resumes the work: no task stays forever in in_progress, in_review
\* or in_qa in the persisted state.
C11_NoTaskStaysInLimbo ==
    \A i \in 1..MaxTasks :
        ~<>[](/\ i <= Len(disk.tasks)
              /\ disk.tasks[i].state \in {"in_progress", "in_review", "in_qa"})

\* C12: a run-all or run-single-task-by-id request rejected for a
\* precondition violation (the command ends without calling run_task or
\* run_pipeline) leaves the persisted project state as it was.
C12_RejectionChangesNothing ==
    [][(proc.pc = "idle" /\ proc'.pc = "idle") => disk' = disk]_vars

\* C13: phase gating: the persisted phase leaves tasks_generated for
\* executing only from a state in which tasks_approved is true, whichever
\* command does it; and a request to run tasks (run-all or one task) made
\* while tasks_approved is false is rejected and leaves the phase as it was.
C13_PhaseGating ==
    [][/\ (disk.phase = "tasks_generated" /\ disk'.phase = "executing")
            => disk.tasks_approved /\ disk'.tasks_approved
       /\ (proc.pc = "idle" /\ ~disk.tasks_approved /\ proc'.pc # "session")
            => proc'.pc = "idle" /\ disk'.phase = disk.phase]_vars

\* run-single-task-by-id has moved the phase from tasks_generated to
\* executing and entered run_task.
C13_TaskCommandEnteredExecuting ==
    /\ proc.cmd = "task"
    /\ proc.pc = "run_task"
    /\ disk.phase = "executing"
    /\ disk.tasks_approved
    /\ disk.updated_at = now
    /\ \A i \in 1..Len(disk.tasks) : disk.tasks[i].state = "ready"

\* C14: each agent invocation adds one new run-log record and overwrites
\* none: a step that invokes an agent makes the number of run-log records
\* one greater, and no step removes a record.
C14_OneNewRunLogPerInvocation ==
    [][/\ runlogs \subseteq runlogs'
       /\ Len(calls'.calls) = Len(calls.calls) + 1
            => Cardinality(runlogs') = Cardinality(runlogs) + 1]_vars

\* C15: whenever the engine is about to invoke an agent, is in a chat
\* session or waits for the user's confirmation, the persisted state document
\* equals the in-memory project state: every transition, blocked_reason
\* change and escalation create/resolve made so far has been saved.
C15_SavedBeforeExternalOperation ==
    proc.pc \in {"session", "coder", "qa", "planner", "confirm"} => disk = mem

\* The build agent is about to be invoked in the loop that follows an
\* escalation: the escalation has been resolved and the task reset and moved
\* to in_progress again.
C15_SecondLoopAboutToInvoke ==
    /\ proc.pc = "coder"
    /\ proc.label = AFTER_ESCALATION
    /\ mem.escalations[proc.esc].resolved
    /\ mem.tasks[proc.task].state = "in_progress"
    /\ disk = mem

\* C16: transition_task from blocked to ready always yields attempt 0,
\* blocked_reason null and escalation_id null, whatever they were before.
C16_BlockedToReadyResets ==
    (tt.called /\ tt.before.state = "blocked" /\ tt.target = "ready") =>
        /\ ~tt.raised
        /\ tt.task.state = "ready"
        /\ tt.task.attempt = 0
        /\ tt.task.blocked_reason = NULL
        /\ tt.task.escalation_id = NoId

\* A blocked task with a positive attempt, a reason and an escalation id has
\* been moved to ready.
C16_ResetOfSetFields ==
    /\ tt.called
    /\ tt.before.state = "blocked"
    /\ tt.target = "ready"
    /\ tt.before.attempt = MaxAttemptInput
    /\ tt.before.blocked_reason # NULL
    /\ tt.before.escalation_id # NoId
    /\ tt.task.state = "ready"

\* C17: an accepted transition_task increases attempt by exactly 1 on
\* in_review -> in_progress and in_qa -> in_progress, and leaves attempt as
\* it was on every other legal edge except blocked -> ready; ready ->
\* in_progress never changes attempt.
C17_AttemptAccounting ==
    (tt.called /\ ~tt.raised) =>
        /\ (tt.target = "in_progress"
                /\ tt.before.state \in {"in_review", "in_qa"})
            => tt.task.attempt = tt.before.attempt + 1
        /\ (~(tt.target = "in_progress"
                /\ tt.before.state \in {"in_review", "in_qa"})
            /\ ~(tt.before.state = "blocked" /\ tt.target = "ready"))
            => tt.task.attempt = tt.before.attempt
        /\ (tt.before.state = "ready" /\ tt.target = "in_progress")
            => tt.task.attempt = tt.before.attempt

\* A task has re-entered in_progress from in_qa after it had entered
\* in_progress from ready: the first entry left attempt alone, the second
\* added one.
C17_ReentryFromQa ==
    /\ tt.called
    /\ ~tt.raised
    /\ tt.before.state = "in_qa"
    /\ tt.target = "in_progress"
    /\ Len(tt.path) > 4
    /\ tt.path[1] = "ready"
    /\ tt.path[2] = "in_progress"
    /\ tt.task.attempt = tt.before.attempt + 1

\* C18: attempt accounting scenario: a task driven through ready ->
\* in_progress -> in_review -> in_progress -> in_qa -> done has every step
\* accepted by transition_task, and ends with attempt incremented exactly
\* twice.
C18_AttemptScenario ==
    LET scenario == <<"ready", "in_progress", "in_review", "in_progress",
                      "in_qa", "done">>
        k == Len(tt.path)
        on_scenario == k <= Len(scenario) /\ tt.path = SubSeq(scenario, 1, k)
    IN /\ (tt.called /\ tt.raised /\ on_scenario /\ k < Len(scenario))
          => tt.target # scenario[k + 1]
       /\ tt.path = scenario => tt.task.attempt = tt.first.attempt + 2

\* C19: one invocation of the attempt loop invokes the build agent at most
\* MAX_ATTEMPTS times and the validator at most MAX_ATTEMPTS times; one
\* run_task call makes at most 2 * MAX_ATTEMPTS build-agent, 2 * MAX_ATTEMPTS
\* validator and 1 decision-agent invocations.
C19_InvocationsBounded ==
    LET c == calls.calls
        n == Len(c)
        of(role, from) == Cardinality({k \in from..n : c[k][1] = role})
        planners == {k \in 1..n : c[k][1] = "planner"}
        loop_start == IF planners = {} THEN 1
                      ELSE 1 + CHOOSE k \in planners : \A j \in planners : j <= k
    IN /\ of("coder", loop_start) <= MAX_ATTEMPTS
       /\ of("qa", loop_start) <= MAX_ATTEMPTS
       /\ \A k \in planners :
            /\ Cardinality({j \in 1..(k - 1) : c[j][1] = "coder"}) <= MAX_ATTEMPTS
            /\ Cardinality({j \in 1..(k - 1) : c[j][1] = "qa"}) <= MAX_ATTEMPTS
       /\ of("coder", 1) <= 2 * MAX_ATTEMPTS
       /\ of("qa", 1) <= 2 * MAX_ATTEMPTS
       /\ of("planner", 1) <= 1

\* run_task has returned after both attempt loops: the build agent was
\* invoked in the first loop, the decision agent answered retry, and the
\* build agent was invoked again.
C19_ReturnedAfterBothLoops ==
    /\ proc.pc = "returned"
    /\ proc.label = AFTER_ESCALATION
    /\ Len(calls.calls) = 3
    /\ calls.calls[2] = <<"planner", "retry">>
    /\ calls.calls[3][1] = "coder"

\* C20 as stated: get_next_runnable_task does not modify the project state,
\* a second call with nothing done in between returns what the first
\* returned, and while T is ready with every dependency done or archived
\* each call returns T or an eligible task of lower order.
C20_ReturnsTaskOrLowerOrder ==
    LET tasks == rs.tasks
        n == Len(tasks)
        met(i) == \A dep \in tasks[i].dependencies :
                      \E j \in 1..n : /\ tasks[j].id = dep
                                      /\ tasks[j].state \in {"done", "archived"}
        eligible == {i \in 1..n : tasks[i].state = "ready" /\ met(i)}
    IN rs.called =>
        /\ rs.tasks = rs.given
        /\ rs.again => rs.result = rs.previous
        /\ \A T \in eligible :
            \/ rs.result = T
            \/ rs.result \in eligible
                   /\ tasks[rs.result].order < tasks[T].order

\* C20 amended: as above, but each call returns T or an eligible task of
\* lower or equal order (of two eligible tasks of equal order, the earlier
\* in the list is returned, on every call).
C20_ReturnsTaskOrNoHigherOrder ==
    LET tasks == rs.tasks
        n == Len(tasks)
        met(i) == \A dep \in tasks[i].dependencies :
                      \E j \in 1..n : /\ tasks[j].id = dep
                                      /\ tasks[j].state \in {"done", "archived"}
        eligible == {i \in 1..n : tasks[i].state = "ready" /\ met(i)}
    IN rs.called =>
        /\ rs.tasks = rs.given
        /\ rs.again => rs.result = rs.previous
        /\ \A T \in eligible :
            \/ rs.result = T
            \/ rs.result \in eligible
                   /\ tasks[rs.result].order <= tasks[T].order

\* The resolver has been called twice on a list whose second task is
\* eligible (its dependency is archived): both calls returned it.
C20_CalledTwice ==
    /\ rs.again
    /\ Len(rs.tasks) = 2
    /\ rs.tasks[1].state = "archived"
    /\ rs.tasks[2].state = "ready" /\ rs.tasks[2].dependencies = {1}
    /\ rs.result = 2
    /\ rs.previous = 2

\* C21: run-all keeps asking the resolver until it returns none: when
\* run_task has returned failure for a task that was escalated and another
\* task is ready with its dependencies done, run-all goes on with the loop
\* in the same invocation.
C21_PipelineContinuesAfterFailure ==
    (/\ proc.cmd = "run"
     /\ proc.pc = "returned"
     /\ calls.result = "false"
     /\ \E k \in 1..Len(calls.calls) : calls.calls[k][1] = "planner"
     /\ get_next_runnable_task(mem.tasks) # 0)
    => ENABLED (Pipeline /\ proc'.pc # "idle")

\* C22: in every reachable persisted state at most one task is in
\* in_progress, in_review or in_qa.
C22_AtMostOneTaskInFlight ==
    Cardinality({i \in 1..Len(disk.tasks) :
        disk.tasks[i].state \in {"in_progress", "in_review", "in_qa"}}) <= 1

\* C23: whenever a task's escalation_id is not null, it names an escalation
\* of the project's escalation list that is owned by that task and is still
\* unresolved.
C23_EscalationIdNamesOpenEscalation ==
    \A i \in 1..Len(disk.tasks) :
        disk.tasks[i].escalation_id # NoId =>
            \E e \in 1..Len(disk.escalations) :
                /\ disk.escalations[e].id = disk.tasks[i].escalation_id
                /\ disk.escalations[e].task_id = disk.tasks[i].id
                /\ ~disk.escalations[e].resolved

\* C24: once a task id is in the project's task list it stays in the list:
\* no step removes a task from the persisted list.
C24_TasksNeverRemoved ==
    [][\A i \in 1..Len(disk.tasks) :
          \E j \in 1..Len(disk'.tasks) : disk'.tasks[j].id = disk.tasks[i].id]_vars

\* C25: every change of a task's state is a legal edge of TASK_TRANSITIONS
\* and stamps updated_at in the same step.  A task that enters the persisted
\* list was constructed in state new (transitions.py:112), so a task that
\* enters in another state has changed state in that step.
C25_StateChangesLegalAndStamped ==
    [][\A j \in 1..Len(disk'.tasks) :
          LET after  == disk'.tasks[j]
              olds   == {i \in 1..Len(disk.tasks) : disk.tasks[i].id = after.id}
              before == IF olds = {} THEN "new"
                        ELSE disk.tasks[CHOOSE i \in olds : TRUE].state
          IN  before # after.state =>
                  /\ can_transition_task(before, after.state)
                  /\ after.updated_at = now]_vars

\* C26: a blocked result of the build agent inside the attempt loop is
\* recoverable: while attempts remain the loop does not end on it.
C26_BlockedResultRetried ==
    [][(/\ proc.pc = "coder_ret"
        /\ proc.answer = "blocked"
        /\ proc.attempt < MAX_ATTEMPTS - 1)
       => proc'.pc # "loop_ret"]_vars

\* C27: when the build agent answers blocked, the loop ends at once: the task
\* is persisted as blocked with the fixed reason, the loop returns failure,
\* and the next invocation, if any, is the decision agent's, never a build or
\* validation invocation of the same loop.
C27_CoderBlockedEndsLoop ==
    LET n == Len(calls.calls)
    IN /\ (/\ proc.pc = "loop_ret"
           /\ n > 0
           /\ calls.calls[n] = <<"coder", "blocked">>)
          => /\ proc.answer = "false"
             /\ mem = disk
             /\ disk.tasks[proc.task].state = "blocked"
             /\ disk.tasks[proc.task].blocked_reason =
                    coder_blocked_reason(proc.label)
       /\ \A k \in 1..(n - 1) :
              calls.calls[k] = <<"coder", "blocked">> =>
                  calls.calls[k + 1][1] = "planner"

\* The loop has ended on a blocked build result with attempts remaining.
C27_LoopEndedWithAttemptsLeft ==
    /\ proc.pc = "loop_ret"
    /\ proc.attempt < MAX_ATTEMPTS - 1
    /\ Len(calls.calls) > 0
    /\ calls.calls[Len(calls.calls)] = <<"coder", "blocked">>

\* C28: a primary attempt loop that has ended on a cycle whose build-agent
\* result was complete and which the validator neither passed nor failed
\* ended on the validator's verdict blocked: the task is blocked with the
\* validator's reason, the loop returned failure with no further build or
\* validation invocation, and run_task goes on to escalate.
C28_ValidatorBlockedEscalates ==
    LET c == calls.calls
        n == Len(c)
    IN /\ (/\ proc.pc \in {"loop_ret", "raised"}
           /\ proc.label = ""
           /\ n > 0
           /\ c[n] \in {<<"coder", "complete">>, <<"qa", "blocked">>})
          => /\ c[n] = <<"qa", "blocked">>
             /\ proc.pc = "loop_ret"
             /\ proc.answer = "false"
             /\ mem.tasks[proc.task].state = "blocked"
             /\ mem.tasks[proc.task].blocked_reason = qa_blocked_reason
             /\ ENABLED (RunTask /\ proc'.pc = "planner")
       /\ \A k \in 1..(n - 1) :
              c[k] = <<"qa", "blocked">> => c[k + 1][1] = "planner"

\* C29: when the decision agent's resolution is neither retry nor
\* human_needed, the escalation stays unresolved, the task stays blocked with
\* the escalation_id and the blocked_reason it was escalated with, no agent
\* is invoked after the decision agent, and run_task returns failure.
C29_UnclearResolutionChangesNothing ==
    LET c == calls.calls
        n == Len(c)
    IN /\ \A k \in 1..(n - 1) : c[k] # <<"planner", "">>
       /\ (n > 0 /\ c[n] = <<"planner", "">>) =>
              LET task == disk.tasks[proc.task]
                  escalation == disk.escalations[proc.esc]
              IN /\ proc.pc \in {"planner_ret", "returned"}
                 /\ proc.pc = "returned" => calls.result = "false"
                 /\ mem = disk
                 /\ ~escalation.resolved
                 /\ task.state = "blocked"
                 /\ task.escalation_id = escalation.id
                 /\ task.blocked_reason = escalation.reason

\* run_task has returned after an unclear resolution.
C29_ReturnedAfterUnclearResolution ==
    /\ proc.pc = "returned"
    /\ Len(calls.calls) > 0
    /\ calls.calls[Len(calls.calls)] = <<"planner", "">>

\* C30: one run_task call creates at most one escalation (the escalation it
\* created stays the last of the list), invokes the decision agent at most
\* once and enters the attempt loop again only after that one invocation
\* answered retry; when the second loop has returned failure the task is
\* blocked with a reason carrying the post-escalation label and has no new
\* escalation.
C30_OneEscalationPerCall ==
    LET c == calls.calls
        n == Len(c)
        planners == {k \in 1..n : c[k][1] = "planner"}
        task == disk.tasks[proc.task]
    IN /\ Cardinality(planners) <= 1
       /\ (proc.pc # "idle" /\ proc.esc # 0) =>
              Len(disk.escalations) = proc.esc
       /\ (proc.pc # "idle" /\ proc.label # "") =>
              /\ proc.label = AFTER_ESCALATION
              /\ \E k \in planners : c[k] = <<"planner", "retry">>
              /\ disk.escalations[proc.esc].resolved
       /\ (/\ proc.pc = "returned"
           /\ proc.label # ""
           /\ calls.result = "false")
          => /\ c[n][1] # "planner"
             /\ task.state = "blocked"
             /\ task.blocked_reason \in
                    {coder_blocked_reason(AFTER_ESCALATION),
                     failed_qa_reason(AFTER_ESCALATION)}
             /\ task.blocked_reason #
                    disk.escalations[proc.esc].reason
             /\ task.escalation_id = NoId

\* run_task has returned failure after the loop that follows the escalation:
\* the build agent answered blocked in both loops.
C30_SecondLoopFailed ==
    /\ proc.pc = "returned"
    /\ calls.result = "false"
    /\ calls.calls =
           <<(<<"coder", "blocked">>), (<<"planner", "retry">>),
             (<<"coder", "blocked">>)>>
    /\ disk.tasks[proc.task].state = "blocked"
    /\ Len(disk.escalations) = proc.esc

\* C31: a step of run_task on task T changes no field of any other task and
\* creates or modifies no escalation owned by another task; and when
\* run_task has returned with T blocked, the resolver, called on the
\* persisted state, returns a ready task whose dependencies are done or
\* archived whenever there is one.
C31_RunTaskFrame ==
    [][/\ proc.pc \in RunTaskPcs =>
            LET T == proc.task
                old == Len(disk.escalations)
            IN /\ Len(mem'.tasks) = Len(mem.tasks)
               /\ Len(disk'.tasks) = Len(disk.tasks)
               /\ \A j \in 1..Len(mem.tasks) :
                      j # T => /\ mem'.tasks[j] = mem.tasks[j]
                               /\ disk'.tasks[j] = disk.tasks[j]
               /\ Len(disk'.escalations) >= old
               /\ \A e \in 1..Len(disk'.escalations) :
                      IF e <= old
                      THEN disk.escalations[e].task_id # disk.tasks[T].id =>
                               disk'.escalations[e] = disk.escalations[e]
                      ELSE disk'.escalations[e].task_id = disk.tasks[T].id
       /\ (/\ proc.pc = "returned"
           /\ disk.tasks[proc.task].state = "blocked") =>
            LET tasks == disk.tasks
                eligible == {j \in 1..Len(tasks) :
                                /\ tasks[j].state = "ready"
                                /\ _deps_satisfied(tasks[j], tasks)}
            IN eligible # {} => get_next_runnable_task(tasks) \in eligible]_vars

\* run_task has returned with its task blocked and escalated while another
\* task is ready with no unmet dependency.
C31_BlockedBesideReadyTask ==
    /\ proc.pc = "returned"
    /\ disk.tasks[proc.task].state = "blocked"
    /\ Len(disk.escalations) > 0
    /\ \E j \in 1..Len(disk.tasks) :
           /\ j # proc.task
           /\ disk.tasks[j].state = "ready"
           /\ _deps_satisfied(disk.tasks[j], disk.tasks)

C33_PhaseAndFlagsConsistent ==
    \A state \in {mem, disk} :
        LET from(phase) ==
                CASE phase = "spec_approved" ->
                        {"spec_approved", "plan_draft", "plan_approved",
                         "tasks_generated", "executing", "complete"}
                  [] phase = "plan_approved" ->
                        {"plan_approved", "tasks_generated", "executing",
                         "complete"}
                  [] phase = "tasks_generated" ->
                        {"tasks_generated", "executing", "complete"}
        IN /\ state.phase \in from("spec_approved") => state.spec_approved
           /\ state.phase \in from("plan_approved") => state.plan_approved
           /\ state.phase \in from("tasks_generated") => state.tasks_approved
           /\ state.tasks # <<>> => state.phase \in from("tasks_generated")

\* The project is executing a non-empty task list.
C33_ExecutingWithTasks ==
    /\ disk.phase = "executing"
    /\ disk.tasks # <<>>
    /\ disk.spec_approved /\ disk.plan_approved /\ disk.tasks_approved

\* C34: across a call of transition_task a task's attempt stays the same
\* or increases, except on the move from blocked to ready, where it becomes
\* 0; it is reset or decreased on no other move.
C34_AttemptMonotone ==
    tt.called =>
        IF ~tt.raised /\ tt.before.state = "blocked" /\ tt.target = "ready"
        THEN tt.task.attempt = 0
        ELSE tt.task.attempt >= tt.before.attempt

\* A task that started with attempt 0 has had its attempt increased, was
\* blocked, and has re-entered ready with attempt 0.
C34_ResetAfterIncrease ==
    /\ tt.called
    /\ ~tt.raised
    /\ tt.first.attempt = 0
    /\ tt.before.state = "blocked"
    /\ tt.before.attempt > 0
    /\ tt.task.state = "ready"
    /\ tt.task.attempt = 0

\* C35: whenever the phase is complete every task is done or archived; the
\* phase becomes complete only in run-all, when the resolver returns none
\* and every task is done or archived; and once the phase is complete no
\* task changes state.
C35_CompleteMeansAllDone ==
    [][/\ disk'.phase = "complete" =>
            \A i \in 1..Len(disk'.tasks) :
                disk'.tasks[i].state \in {"done", "archived"}
       /\ (disk.phase # "complete" /\ disk'.phase = "complete") =>
            /\ proc.cmd = "run"
            /\ proc.pc = "pipeline"
            /\ get_next_runnable_task(mem.tasks) = 0
            /\ \A i \in 1..Len(mem.tasks) :
                   mem.tasks[i].state \in {"done", "archived"}
       /\ disk.phase = "complete" =>
            /\ disk'.phase = "complete"
            /\ Len(disk'.tasks) = Len(disk.tasks)
            /\ \A i \in 1..Len(disk.tasks) :
                   disk'.tasks[i].state = disk.tasks[i].state]_vars

\* run-all has moved a project of two tasks, one done and one archived, to
\* complete.
C35_CompletedTwoTasks ==
    /\ disk.phase = "complete"
    /\ proc.pc = "idle"
    /\ Len(disk.tasks) = 2
    /\ disk.tasks[1].state = "done"
    /\ disk.tasks[2].state = "archived"

\* C36: the project is in phase complete only with a non-empty task list
\* in which some task has reached done: a project whose task list is empty
\* never reaches phase complete.
C36_CompleteNeedsTasks ==
    disk.phase = "complete" =>
        \E i \in 1..Len(disk.tasks) : disk.tasks[i].state = "done"

\* C37: in every persisted state a task has a blocked_reason if and only
\* if its state is blocked.
C37_BlockedReasonIffBlocked ==
    \A i \in 1..Len(disk.tasks) :
        disk.tasks[i].blocked_reason # NULL <=> disk.tasks[i].state = "blocked"

\* A task that was blocked and escalated has been reset for the retry and is
\* in progress again, while another run left a task blocked.
C37_ResetBesideBlocked ==
    /\ proc.pc = "coder"
    /\ proc.label = AFTER_ESCALATION
    /\ disk.tasks[proc.task].state = "in_progress"
    /\ \E j \in 1..Len(disk.tasks) : disk.tasks[j].state = "blocked"

C39_RunAllTerminates ==
    /\ [][(/\ proc.cmd = "run"
           /\ proc.pc = "returned"
           /\ proc'.pc # "idle")
          => /\ mem.tasks[proc.task].state = "done"
             /\ mem'.tasks = mem.tasks]_vars
    /\ (proc.cmd = "run") ~> (proc.pc = "idle")

\* run_task has returned failure to run-all while another task is ready.
C39_ReturnedToRunAll ==
    /\ proc.cmd = "run"
    /\ proc.pc = "returned"
    /\ calls.result = "false"
    /\ \E j \in 1..Len(mem.tasks) : mem.tasks[j].state = "ready"

=============================================================================
